---- MODULE Spec2Model ----
(***************************************************************************)
(* A model of the obsidian-mindmap plugin's glue logic:                    *)
(*   - the code-block renderer (CodeBlockRenderer, SettingsManager,        *)
(*     SizeManager): settings merging, resize by dragging, persistence of  *)
(*     the height in the code block's front-matter;                        *)
(*   - the html-escape transform plugin;                                   *)
(*   - the mind-map view (MindmapView): debounced quick-preview updates    *)
(*     and checkAndUpdate on workspace events.                             *)
(* Optional values (T | undefined) are sets with at most one element.      *)
(***************************************************************************)
EXTENDS Integers, Sequences, FiniteSets, TLC

\* ------------------------------------------------------------------ bounds
\* largest clientY of a mouse event (pointer positions are 0..MaxY)
MaxY == 2
\* largest number of inner mousemove streams alive at once (mousedowns
\* without a mouseup in between)
MaxStreams == 1

\* largest length of a token's content in the parser's result
MaxContentLen == 2
\* largest nesting depth of children below a token of the parser's result
MaxDepth == 2
\* largest number of async calls of the view waiting for a read at once
MaxTasks == 2
\* largest number of calls of reloadMarkmapSVG
MaxReloads == 2
\* largest number of calls of markmap.fit() by one code-block renderer
MaxFits == 2
\* largest number of quick-preview events
MaxEvents == 3
\* the time the clock stops at, in ms
MaxTime == 700

\* ------------------------------------------------------------ code block
VARIABLES
  settings,        \* SettingsManager.settings: [global, file, codeBlock]
  newHeight,       \* SettingsManager.newHeight (optional)
  svgHeight,       \* svg.style.height, in px
  doc,             \* the editor's text: a sequence of lines
  streams,         \* the inner streams of yOffset$'s flatMap still alive
  highlightClass,  \* cssClasses.highlight is on containerEl.parentElement
  ev,              \* the last event handled
  drag             \* the drag under way: the height and clientY at its mousedown,
                   \* and whether an offset was applied since the last save

blockVars == <<settings, newHeight, svgHeight, doc, streams, highlightClass, ev, drag>>

\* ----------------------------------------------------------- html-escape
VARIABLES
  tokens,          \* ctx.result of the wrapped md.parse
  parsedTokens,    \* what the original md.parse returned
  escPhase         \* "parsed": md.parse has returned; "escaped": the after hook ran

escapeVars == <<tokens, parsedTokens, escPhase>>

\* ---------------------------------------------------------- mind-map view
VARIABLES
  leafFile,        \* the file each markdown leaf of the workspace shows
  activeLeaf,      \* app.workspace.activeLeaf (optional)
  vault,           \* the content of each file (none: the read throws)
  filePath,        \* MindmapView.filePath
  fileName,        \* MindmapView.fileName
  currentMd,       \* MindmapView.currentMd (optional)
  linkedLeaf,      \* MindmapView.linkedLeaf (optional)
  isLeafPinned,    \* MindmapView.isLeafPinned
  hasFit,          \* MindmapView.hasFit
  rendered,        \* the markdown whose tree markmapSVG.setData got last (optional)
  tasks,           \* the async calls waiting for vault.adapter.read
  lastCheck        \* what the last checkAndUpdate that ended saw and did

viewVars == <<leafFile, activeLeaf, vault, filePath, fileName, currentMd,
              linkedLeaf, isLeafPinned, hasFit, rendered, tasks, lastCheck>>

\* the quick-preview listener and the clock
VARIABLES
  now,             \* the time, in ms
  timers,          \* the window.setTimeout calls neither run nor cleared
  lastTimeout,     \* setListenersUp's lastTimeout (optional)
  nextTimer,       \* the id the next window.setTimeout returns
  events,          \* the quick-preview events so far: [time, content]
  updates          \* the calls of update(content) by a timer: [evt, time, content]

quickVars == <<now, timers, lastTimeout, nextTimer, events, updates>>

\* the Markmap instances and their fit
VARIABLES
  fitCalls,        \* the calls of MindmapView's markmapSVG.fit() so far
  autoFits,        \* the autoFit options markmapSVG.setData was given so far
  reloads,         \* the calls of reloadMarkmapSVG so far: the Markmap instance
                   \* markmapSVG holds is the one created by the last of them
  renderedGen,     \* the instance whose setData completed last (optional)
  cbHasFit,        \* CodeBlockRenderer's hasFit
  cbFitCalls       \* the calls of markmap.fit() by CodeBlockRenderer's fit so far

mmVars == <<fitCalls, autoFits, reloads, renderedGen>>
cbVars == <<cbHasFit, cbFitCalls>>
fitVars == <<mmVars, cbVars>>

vars == <<blockVars, escapeVars, viewVars, quickVars, fitVars>>

None == {}
Some(x) == {x}
Get(o) == CHOOSE x \in o : TRUE
\* a JavaScript value used as a condition (undefined and 0 are falsy)
Truthy(o) == o # None /\ Get(o) # 0

DEFAULT_HEIGHT == 150

SettingKeys == {"highlight", "height"}

\* --- lines of the document
Line(t, k, v) == [t |-> t, k |-> k, v |-> v]
TextLine(n) == Line("text", "", n)
Fence == Line("fence", "", 0)
Delim == Line("delim", "", 0)
KeyLine(k, v) == Line("key", k, v)
MapLine(k) == Line("map", k, 0)
SubLine(k, v) == Line("sub", k, v)

\* --- gray-matter: parse
RECURSIVE CountSubs(_)
CountSubs(ls) ==
  IF ls = <<>> \/ Head(ls).t # "sub" THEN 0 ELSE 1 + CountSubs(Tail(ls))

RECURSIVE ParseYaml(_)
ParseYaml(ls) ==
  IF ls = <<>> THEN <<>>
  ELSE LET h == Head(ls) IN
    IF h.t = "key"
      THEN <<[k |-> h.k, isMap |-> FALSE, v |-> h.v, sub |-> <<>>]>>
           \o ParseYaml(Tail(ls))
    ELSE IF h.t = "map"
      THEN LET n == CountSubs(Tail(ls)) IN
           <<[k |-> h.k, isMap |-> TRUE, v |-> 0,
              sub |-> [i \in 1..n |-> [k |-> ls[i + 1].k, v |-> ls[i + 1].v]]]>>
           \o ParseYaml(SubSeq(ls, n + 2, Len(ls)))
    ELSE ParseYaml(Tail(ls))

\* the index of the first closing delimiter after line 1, or 0
CloseIndex(text) ==
  LET c == {i \in 2..Len(text) : text[i] = Delim} IN
  IF c = {} THEN 0 ELSE CHOOSE i \in c : \A j \in c : i <= j

GrayMatter(text) ==
  IF text = <<>> \/ text[1] # Delim
    THEN [data |-> <<>>, content |-> text]
  ELSE LET c == CloseIndex(text) IN
    IF c = 0
      THEN [data |-> ParseYaml(Tail(text)), content |-> <<>>]
      ELSE [data |-> ParseYaml(SubSeq(text, 2, c - 1)),
            content |-> SubSeq(text, c + 1, Len(text))]

\* --- gray-matter: stringify
RECURSIVE DumpYaml(_)
DumpYaml(data) ==
  IF data = <<>> THEN <<>>
  ELSE LET e == Head(data) IN
    (IF e.isMap
       THEN <<MapLine(e.k)>> \o [i \in 1..Len(e.sub) |-> SubLine(e.sub[i].k, e.sub[i].v)]
       ELSE <<KeyLine(e.k, e.v)>>)
    \o DumpYaml(Tail(data))

GrayMatterStringify(content, data) ==
  <<Delim>> \o DumpYaml(data) \o <<Delim>> \o content

\* --- data access
HasKey(seq, k) == \E i \in 1..Len(seq) : seq[i].k = k
KeyIndex(seq, k) == CHOOSE i \in 1..Len(seq) : seq[i].k = k

\* md.data.markmap ??= {}
EnsureMarkmap(data) ==
  IF HasKey(data, "markmap") THEN data
  ELSE Append(data, [k |-> "markmap", isMap |-> TRUE, v |-> 0, sub |-> <<>>])

SetSub(sub, k, v) ==
  IF HasKey(sub, k) THEN [sub EXCEPT ![KeyIndex(sub, k)].v = v]
  ELSE Append(sub, [k |-> k, v |-> v])

\* --- SettingsManager
\* (mutant) get height() written with || where the code has ??
HeightGet_Or(nh, cb) ==
  IF Truthy(nh) THEN Get(nh)
  ELSE IF Truthy(cb["height"]) THEN Get(cb["height"])
  ELSE DEFAULT_HEIGHT

\* get height(): this.newHeight ?? this.settings.codeBlock.height ?? DEFAULT_HEIGHT
HeightGet(nh, cb) ==
  IF nh # None THEN Get(nh)
  ELSE IF cb["height"] # None THEN Get(cb["height"])
  ELSE DEFAULT_HEIGHT

\* set height(height): the new value of newHeight
HeightSet(cb, height) ==
  IF cb["height"] = Some(height) THEN None ELSE Some(height)

\* { ...a, ...b }
Spread(a, b) == [k \in SettingKeys |-> IF b[k] # None THEN b[k] ELSE a[k]]

\* (mutant) get merged() spreading the file's settings over the code block's
Merged_FileLast(s, nh) ==
  [Spread(Spread(s.global, s.codeBlock), s.file)
     EXCEPT !["height"] = Some(HeightGet(nh, s.codeBlock))]

\* get merged()
Merged(s, nh) ==
  [Spread(Spread(s.global, s.file), s.codeBlock)
     EXCEPT !["height"] = Some(HeightGet(nh, s.codeBlock))]


\* --- the code block in the document
FenceLines(d) == {i \in 1..Len(d) : d[i] = Fence}
\* codeBlock.getSectionInfo(): 0-based line numbers of the two fences
GetSectionInfo(d) ==
  [lineStart |-> (CHOOSE i \in FenceLines(d) : \A j \in FenceLines(d) : i <= j) - 1,
   lineEnd   |-> (CHOOSE i \in FenceLines(d) : \A j \in FenceLines(d) : i >= j) - 1]

\* editor.getRange({line: from, ch: 0}, {line: to, ch: 0})
GetRange(d, from, to) == SubSeq(d, from + 1, to)
\* editor.replaceRange(new, {line: from, ch: 0}, {line: to, ch: 0})
ReplaceRange(d, new, from, to) ==
  SubSeq(d, 1, from) \o new \o SubSeq(d, to + 1, Len(d))

\* the text between the fences
BlockText(d) ==
  GetRange(d, GetSectionInfo(d).lineStart + 1, GetSectionInfo(d).lineEnd)

\* readMarkdown<CodeBlock>(markdown).settings: the front-matter's markmap object
ReadMarkdown(text) ==
  LET data == GrayMatter(text).data
      mm == IF HasKey(data, "markmap") THEN data[KeyIndex(data, "markmap")].sub
            ELSE <<>>
  IN [k \in SettingKeys |->
        IF HasKey(mm, k) THEN Some(mm[KeyIndex(mm, k)].v) ELSE None]

\* markmap.height as the document now stores it
FrontMatterHeight(d) == ReadMarkdown(BlockText(d))["height"]

\* (mutant) saveHeight() assigning md.data.markmap = { height } whole
SaveHeight_NewMarkmap(d, nh, cb) ==
  IF nh = None THEN [doc |-> d, newHeight |-> nh, wrote |-> FALSE]
  ELSE
    LET sectionInfo == GetSectionInfo(d)
        lineStart == sectionInfo.lineStart + 1
        lineEnd == sectionInfo.lineEnd
        md == GrayMatter(GetRange(d, lineStart, lineEnd))
        data1 == EnsureMarkmap(md.data)
        i == KeyIndex(data1, "markmap")
        data2 == [data1 EXCEPT ![i].sub = <<[k |-> "height", v |-> HeightGet(nh, cb)]>>]
    IN [doc |-> ReplaceRange(d, GrayMatterStringify(md.content, data2),
                             lineStart, lineEnd),
        newHeight |-> None,
        wrote |-> TRUE]

\* saveHeight(): the new document, the new newHeight, and whether the editor
\* was read and written
SaveHeight(d, nh, cb) ==
  IF nh = None THEN [doc |-> d, newHeight |-> nh, wrote |-> FALSE]
  ELSE
    LET sectionInfo == GetSectionInfo(d)
        lineStart == sectionInfo.lineStart + 1
        lineEnd == sectionInfo.lineEnd
        md == GrayMatter(GetRange(d, lineStart, lineEnd))
        data1 == EnsureMarkmap(md.data)
        i == KeyIndex(data1, "markmap")
        data2 == [data1 EXCEPT ![i].sub = SetSub(@, "height", HeightGet(nh, cb))]
    IN [doc |-> ReplaceRange(d, GrayMatterStringify(md.content, data2),
                             lineStart, lineEnd),
        newHeight |-> None,
        wrote |-> TRUE]

\* --- SizeManager: the mousemove listeners of the inner streams, in the order
\* they were added; st = [nh, svg, assigned] is threaded through them
RECURSIVE Moves(_, _, _, _)
Moves(ss, y, cb, st) ==
  IF ss = <<>> THEN st
  ELSE LET s == Head(ss)
           cur == y - s.startY
       IN IF s.prev = None THEN Moves(Tail(ss), y, cb, st)
          ELSE LET h == HeightGet(st.nh, cb) + (cur - Get(s.prev))
                   nh2 == HeightSet(cb, h)
               IN Moves(Tail(ss), y, cb,
                        [nh |-> nh2, svg |-> HeightGet(nh2, cb), assigned |-> Some(h)])

\* --- the events' record
Event(type, y, wrote, assigned) ==
  [type |-> type, y |-> y, wrote |-> wrote, assigned |-> assigned]

\* --- inputs
StoredHeights == {0, DEFAULT_HEIGHT}
GlobalChoices ==
  {[k \in SettingKeys |-> IF k = "highlight" THEN Some(0) ELSE None],
   [k \in SettingKeys |-> IF k = "highlight" THEN Some(1) ELSE Some(7)]}
FileChoices ==
  {[k \in SettingKeys |-> None],
   [k \in SettingKeys |-> IF k = "highlight" THEN Some(1) ELSE None],
   [k \in SettingKeys |-> IF k = "highlight" THEN Some(0) ELSE Some(9)]}

\* the text between the fences of the documents the renderer is built on:
\* no front-matter, front-matter without markmap, an empty markmap, markmap
\* without height, and markmap with a height (in either key order)
BlockTexts ==
  {<<TextLine(3)>>,
   <<Delim, KeyLine("title", 5), Delim, TextLine(3)>>,
   <<Delim, MapLine("markmap"), Delim, TextLine(3)>>,
   <<Delim, MapLine("markmap"), SubLine("highlight", 0), Delim>>}
  \cup
  {<<Delim, KeyLine("title", 5), MapLine("markmap"), SubLine("highlight", 1),
     SubLine("height", h), Delim, TextLine(3)>> : h \in StoredHeights}
  \cup
  {<<Delim, MapLine("markmap"), SubLine("height", h), SubLine("highlight", 0),
     KeyLine("title", 5), Delim>> : h \in StoredHeights}
InitialDocs ==
  {<<TextLine(1), Fence>> \o t \o <<Fence, TextLine(2)>> : t \in BlockTexts}

\* ----------------------------------------------------------- html-escape
\* strings are sequences of characters
Chars == {"<", ">", "a"}
Lt == <<"&", "l", "t", ";">>
Gt == <<"&", "g", "t", ";">>

\* String.prototype.replace(pattern, replacement) with a string pattern of one
\* character: the first occurrence only
Occurrences(str, ch) == {i \in 1..Len(str) : str[i] = ch}
Replace(str, ch, rep) ==
  IF Occurrences(str, ch) = {} THEN str
  ELSE LET i == CHOOSE i \in Occurrences(str, ch) : \A j \in Occurrences(str, ch) : i <= j
       IN SubSeq(str, 1, i - 1) \o rep \o SubSeq(str, i + 1, Len(str))

\* escapeAll(token); an empty content is falsy
RECURSIVE escapeAll(_)
escapeAll(token) ==
  [type |-> token.type,
   content |-> IF token.type = "htmltag" /\ token.content # <<>>
                 THEN Replace(Replace(token.content, "<", Lt), ">", Gt)
                 ELSE token.content,
   children |-> [i \in 1..Len(token.children) |-> escapeAll(token.children[i])]]

\* the parser's results: one top-level token with at most one child per level
Contents == UNION {[1..n -> Chars] : n \in 0..MaxContentLen}
TokenTypes == {"htmltag", "text"}
RECURSIVE TokensOfDepth(_)
TokensOfDepth(d) ==
  {[type |-> t, content |-> c, children |-> ch] :
     t \in TokenTypes, c \in Contents,
     ch \in IF d = 0 THEN {<<>>}
            ELSE {<<>>} \cup {<<k>> : k \in TokensOfDepth(d - 1)}}

\* md.parse (the original one) has returned
EscapeInit ==
  /\ tokens \in {<<t>> : t \in TokensOfDepth(MaxDepth)}
  /\ parsedTokens = tokens
  /\ escPhase = "parsed"

\* wrapFunction's after hook: ctx.result = ctx.result.map(escapeAll)
AfterParse ==
  /\ escPhase = "parsed"
  /\ tokens' = [i \in 1..Len(tokens) |-> escapeAll(tokens[i])]
  /\ escPhase' = "escaped"
  /\ UNCHANGED parsedTokens
  /\ UNCHANGED <<blockVars, viewVars, quickVars, fitVars>>

\* --- construction: CodeBlockRenderer(codeBlock, tabView, global, file)
BlockInit ==
  /\ doc \in InitialDocs
  /\ \E g \in GlobalChoices, f \in FileChoices :
       settings = [global |-> g, file |-> f,
                   codeBlock |-> ReadMarkdown(BlockText(doc))]
  /\ newHeight = None
  /\ svgHeight = HeightGet(newHeight, settings.codeBlock)
  /\ streams = <<>>
  /\ highlightClass = Truthy(Merged(settings, newHeight)["highlight"])
  /\ ev = Event("init", 0, FALSE, None)
  /\ drag = [h0 |-> 0, y0 |-> 0, dirty |-> FALSE]

\* fromEvent(resizeHandle, "mousedown"): flatMap subscribes a new inner stream
MouseDown(y) ==
  /\ Len(streams) < MaxStreams
  /\ streams' = Append(streams, [startY |-> y, prev |-> None])
  /\ ev' = Event("mousedown", y, FALSE, None)
  /\ drag' = [drag EXCEPT !.h0 = HeightGet(newHeight, settings.codeBlock), !.y0 = y]
  /\ UNCHANGED <<settings, newHeight, svgHeight, doc, highlightClass>>
  /\ UNCHANGED <<escapeVars, viewVars, quickVars, fitVars>>

\* fromEvent(document, "mousemove") in every inner stream, pairwise, b - a,
\* and the subscriber of yOffset$
MouseMove(y) ==
  LET st == Moves(streams, y, settings.codeBlock,
                  [nh |-> newHeight, svg |-> svgHeight, assigned |-> None])
  IN /\ streams' = [i \in 1..Len(streams) |->
                      [streams[i] EXCEPT !.prev = Some(y - streams[i].startY)]]
     /\ newHeight' = st.nh
     /\ svgHeight' = st.svg
     /\ ev' = Event("mousemove", y, FALSE, st.assigned)
     /\ drag' = [drag EXCEPT !.dirty = @ \/ st.assigned # None]
     /\ UNCHANGED <<settings, doc, highlightClass>>
     /\ UNCHANGED <<escapeVars, viewVars, quickVars, fitVars>>

\* fromEvent(document, "mouseup"): takeUntil ends the inner streams, and
\* settings.saveHeight runs
MouseUp ==
  LET r == SaveHeight(doc, newHeight, settings.codeBlock)
  IN /\ streams' = <<>>
     /\ doc' = r.doc
     /\ newHeight' = r.newHeight
     /\ ev' = Event("mouseup", 0, r.wrote, None)
     /\ drag' = [h0 |-> 0, y0 |-> 0, dirty |-> drag.dirty /\ ~r.wrote]
     /\ UNCHANGED <<settings, svgHeight, highlightClass>>
     /\ UNCHANGED <<escapeVars, viewVars, quickVars, fitVars>>

\* render(): markmap.setData(rootNode, getOptions(settings.merged)) and the
\* highlight class
Render(s, type) ==
  /\ settings' = s
  /\ highlightClass' = Truthy(Merged(s, newHeight)["highlight"])
  /\ ev' = Event(type, 0, FALSE, None)
  /\ UNCHANGED <<newHeight, svgHeight, doc, streams, drag>>
  /\ UNCHANGED <<escapeVars, viewVars, quickVars, fitVars>>

UpdateGlobalSettings(g) == Render([settings EXCEPT !.global = g], "updateGlobalSettings")

UpdateFileSettings(f) == Render([settings EXCEPT !.file = f], "updateFileSettings")

\* Callbag.subscribe(renderCodeblocks$, render)
RenderCodeblocks == Render(settings, "render")

\* fit(): if (!hasFit) markmap.fit()
Fit ==
  /\ cbFitCalls < MaxFits
  /\ cbFitCalls' = IF ~cbHasFit THEN cbFitCalls + 1 ELSE cbFitCalls
  /\ ev' = Event("fit", 0, FALSE, None)
  /\ UNCHANGED cbHasFit
  /\ UNCHANGED <<settings, newHeight, svgHeight, doc, streams, highlightClass, drag>>
  /\ UNCHANGED mmVars
  /\ UNCHANGED <<escapeVars, viewVars, quickVars>>


\* ---------------------------------------------------------- mind-map view
MD_VIEW_TYPE == "markdown"
MM_VIEW_TYPE == "markmap"
\* the delay of the quick-preview listener's window.setTimeout, in ms
DebounceMs == 300

MdLeaves == {"md1", "md2"}
Leaves == MdLeaves \cup {"mm"}
Paths == {"a.md", "b.md"}
\* the contents a file of the vault may have
FileTexts == {"", "x"}
\* the contents a quick-preview event may carry
PreviewTexts == {"", "x", "y"}

\* leaf.view.getViewType(): "mm" is the mind-map view's own leaf
ViewType(l) == IF l \in MdLeaves THEN MD_VIEW_TYPE ELSE MM_VIEW_TYPE
\* (leaf.view as any).file: a MindmapView has no file
FileOf(l) == IF l \in MdLeaves THEN Some(leafFile[l]) ELSE None
\* fileInfo.basename
Basename(p) == IF p = "a.md" THEN "a" ELSE "b"
\* an optional string used as a condition (undefined and "" are falsy)
TruthyStr(o) == o # None /\ Get(o) # ""

Remove(seq, i) == SubSeq(seq, 1, i - 1) \o SubSeq(seq, i + 1, Len(seq))

\* --- renderMarkmap
OptionKeys == {"autoFit", "duration"}
\* this.options as renderMarkmap assigns it
Options == [k \in OptionKeys |-> IF k = "autoFit" THEN Some(FALSE) ELSE Some(500)]
\* what deriveOptions(frontmatter?.markmap) may return, color taken out: it
\* derives duration (among others) and no autoFit
FrontmatterOptions ==
  {[k \in OptionKeys |-> IF k = "duration" THEN d ELSE None] : d \in {None, Some(0)}}
\* { ...this.options, ...frontmatterOptions }
SetDataOptions(fo) == [k \in OptionKeys |-> IF fo[k] # None THEN fo[k] ELSE Options[k]]

\* (mutant) renderMarkmap() calling markmapSVG.fit() without looking at hasFit
RenderMarkmap_FitAlways(md, gen, ok, fo) ==
  /\ autoFits' = autoFits \cup {SetDataOptions(fo)["autoFit"]}
  /\ IF ok
       THEN /\ rendered' = md
            /\ renderedGen' = Some(gen)
            /\ fitCalls' = fitCalls + 1
            /\ hasFit' = TRUE
       ELSE UNCHANGED <<rendered, renderedGen, fitCalls, hasFit>>

\* renderMarkmap() on the Markmap instance gen: setData, then fit() unless
\* hasFit; ok is whether the try block gets past setData (an exception is
\* caught and logged)
RenderMarkmap(md, gen, ok, fo) ==
  /\ autoFits' = autoFits \cup {SetDataOptions(fo)["autoFit"]}
  /\ IF ok
       THEN /\ rendered' = md
            /\ renderedGen' = Some(gen)
            /\ fitCalls' = IF ~hasFit THEN fitCalls + 1 ELSE fitCalls
            /\ hasFit' = TRUE
       ELSE UNCHANGED <<rendered, renderedGen, fitCalls, hasFit>>

\* update() with no markdown, up to its first await: readMarkDown() has called
\* vault.adapter.read(this.filePath); kind is "quick" for the call in the
\* quick-preview timer's callback and "event" for every other call
StartUpdate(kind, evt, path) ==
  [kind |-> kind, pc |-> "updRead", path |-> path, changed |-> FALSE, evt |-> evt]

\* const updateRequired = pathHasChanged || markDownHasChanged
UpdateRequired(pathHasChanged, markDownHasChanged) ==
  pathHasChanged \/ markDownHasChanged

\* getLeafTarget(): the new linkedLeaf
GetLinkedLeaf == IF ~isLeafPinned THEN activeLeaf ELSE linkedLeaf
\* getLeafTarget(): the leaf returned
GetLeafTarget ==
  IF GetLinkedLeaf # None THEN Get(GetLinkedLeaf) ELSE Get(activeLeaf)

Check(activeMd, differs, updated, touched) ==
  [activeMd |-> activeMd, differs |-> differs, updated |-> updated,
   touched |-> touched]

\* a workspace event wired to checkAndUpdate, up to the first await (or to the
\* end, when checkActiveLeaf returns false or readFilePath throws)
CheckAndUpdate ==
  /\ Len(tasks) < MaxTasks
  /\ IF activeLeaf = None \/ ViewType(Get(activeLeaf)) # MD_VIEW_TYPE
       THEN /\ UNCHANGED <<linkedLeaf, filePath, fileName, tasks>>
            /\ lastCheck' = Check(FALSE, FALSE, FALSE,
                                  filePath' # filePath \/ fileName' # fileName)
       ELSE /\ linkedLeaf' = GetLinkedLeaf
            /\ IF FileOf(GetLeafTarget) = None
                 THEN \* fileInfo.path throws a TypeError, which checkAndUpdate catches
                      /\ UNCHANGED <<filePath, fileName, tasks>>
                      /\ lastCheck' =
                           Check(TRUE,
                                 vault[filePath] # None /\ vault[filePath] # currentMd,
                                 FALSE, FALSE)
                 ELSE LET path == Get(FileOf(GetLeafTarget)) IN
                      /\ filePath' = path
                      /\ fileName' = Basename(path)
                      /\ tasks' = Append(tasks,
                           [kind |-> "check", pc |-> "chkRead", path |-> path,
                            changed |-> filePath # path, evt |-> 0])
                      /\ UNCHANGED lastCheck
  /\ UNCHANGED <<leafFile, activeLeaf, vault, currentMd, isLeafPinned, hasFit, rendered>>
  /\ UNCHANGED <<blockVars, escapeVars, quickVars, fitVars>>

\* checkActiveLeaf after its await of readMarkDown, and checkAndUpdate's call
\* of update() up to its await
CheckReadReturn(i) ==
  /\ tasks[i].pc = "chkRead"
  /\ LET r == vault[tasks[i].path]
         markDownHasChanged == r # None /\ currentMd # r
         updateRequired == UpdateRequired(tasks[i].changed, markDownHasChanged)
     IN /\ currentMd' = IF r = None THEN currentMd ELSE r
        /\ tasks' = IF updateRequired
                      THEN [tasks EXCEPT ![i] = StartUpdate("event", 0, filePath)]
                      ELSE Remove(tasks, i)
        /\ lastCheck' = Check(TRUE,
                              tasks[i].changed \/ (r # None /\ r # currentMd),
                              updateRequired, FALSE)
  /\ UNCHANGED <<leafFile, activeLeaf, vault, filePath, fileName, linkedLeaf,
                 isLeafPinned, hasFit, rendered>>
  /\ UNCHANGED <<blockVars, escapeVars, quickVars, fitVars>>

\* update() after its await of readMarkDown: transformMarkdown, renderMarkmap;
\* and, in the timer's callback, lastTimeout = undefined
UpdateReadReturn(i) ==
  /\ tasks[i].pc = "updRead"
  /\ LET r == vault[tasks[i].path]
         md == IF r = None THEN currentMd ELSE r
     IN /\ currentMd' = md
        /\ IF TruthyStr(md)
             THEN \E ok \in BOOLEAN, fo \in FrontmatterOptions :
                    RenderMarkmap(md, reloads, ok, fo)
             ELSE UNCHANGED <<rendered, hasFit, fitCalls, autoFits, renderedGen>>
  /\ lastTimeout' = IF tasks[i].kind = "quick" THEN None ELSE lastTimeout
  /\ tasks' = Remove(tasks, i)
  /\ UNCHANGED <<leafFile, activeLeaf, vault, filePath, fileName, linkedLeaf,
                 isLeafPinned, lastCheck>>
  /\ UNCHANGED <<now, timers, nextTimer, events, updates>>
  /\ UNCHANGED <<reloads, cbVars>>
  /\ UNCHANGED <<blockVars, escapeVars>>

\* pinCurrentLeaf()
PinCurrentLeaf ==
  /\ isLeafPinned' = TRUE
  /\ UNCHANGED <<leafFile, activeLeaf, vault, filePath, fileName, currentMd,
                 linkedLeaf, hasFit, rendered, tasks, lastCheck>>
  /\ UNCHANGED <<blockVars, escapeVars, quickVars, fitVars>>

\* unPin(), the click on pinAction
UnPin ==
  /\ isLeafPinned
  /\ isLeafPinned' = FALSE
  /\ UNCHANGED <<leafFile, activeLeaf, vault, filePath, fileName, currentMd,
                 linkedLeaf, hasFit, rendered, tasks, lastCheck>>
  /\ UNCHANGED <<blockVars, escapeVars, quickVars, fitVars>>

\* workspace.getGroupLeaves(group): the view's own leaf is in its group
GetGroupLeaves(group) == Leaves

\* the leaf's group-change event: updateLinkedLeaf(group, this); group is
\* optional (null: the leaf left its group)
UpdateLinkedLeaf(group) ==
  /\ IF group = None
       THEN linkedLeaf' = None /\ UNCHANGED tasks
       ELSE /\ Len(tasks) < MaxTasks
            /\ LET mm == {l \in GetGroupLeaves(group) : ViewType(l) = MM_VIEW_TYPE}
               IN linkedLeaf' = IF mm = {} THEN None ELSE Some(CHOOSE l \in mm : TRUE)
            /\ tasks' = Append(tasks, StartUpdate("event", 0, filePath))
  /\ UNCHANGED <<leafFile, activeLeaf, vault, filePath, fileName, currentMd,
                 isLeafPinned, hasFit, rendered, lastCheck>>
  /\ UNCHANGED <<blockVars, escapeVars, quickVars, fitVars>>

\* the user makes another leaf active (or none)
SetActiveLeaf(l) ==
  /\ activeLeaf # l
  /\ activeLeaf' = l
  /\ UNCHANGED <<leafFile, vault, filePath, fileName, currentMd, linkedLeaf,
                 isLeafPinned, hasFit, rendered, tasks, lastCheck>>
  /\ UNCHANGED <<blockVars, escapeVars, quickVars, fitVars>>

\* the user opens another file in a markdown leaf
OpenFile(l, p) ==
  /\ leafFile[l] # p
  /\ leafFile' = [leafFile EXCEPT ![l] = p]
  /\ UNCHANGED <<activeLeaf, vault, filePath, fileName, currentMd, linkedLeaf,
                 isLeafPinned, hasFit, rendered, tasks, lastCheck>>
  /\ UNCHANGED <<blockVars, escapeVars, quickVars, fitVars>>

\* a file of the vault is written (c a content) or deleted (c none)
WriteFile(p, c) ==
  /\ vault[p] # c
  /\ vault' = [vault EXCEPT ![p] = c]
  /\ UNCHANGED <<leafFile, activeLeaf, filePath, fileName, currentMd, linkedLeaf,
                 isLeafPinned, hasFit, rendered, tasks, lastCheck>>
  /\ UNCHANGED <<blockVars, escapeVars, quickVars, fitVars>>

\* reloadMarkmapSVG(): destroy, createMarkmapSvg, update(this.currentMd); with
\* a non-empty currentMd update() meets no read, else it awaits readMarkDown()
ReloadMarkmapSVG ==
  /\ reloads < MaxReloads
  /\ reloads' = reloads + 1
  /\ IF TruthyStr(currentMd)
       THEN /\ \E ok \in BOOLEAN, fo \in FrontmatterOptions :
                 RenderMarkmap(currentMd, reloads + 1, ok, fo)
            /\ UNCHANGED tasks
       ELSE /\ Len(tasks) < MaxTasks
            /\ tasks' = Append(tasks, StartUpdate("event", 0, filePath))
            /\ UNCHANGED <<rendered, hasFit, fitCalls, autoFits, renderedGen>>
  /\ UNCHANGED <<leafFile, activeLeaf, vault, filePath, fileName, currentMd,
                 linkedLeaf, isLeafPinned, lastCheck>>
  /\ UNCHANGED cbVars
  /\ UNCHANGED <<blockVars, escapeVars, quickVars>>

\* --- the quick-preview listener
\* workspace.on("quick-preview", (_, content) => ...); timers that are due run
\* before a new event is handled
QuickPreview(content) ==
  /\ Len(events) < MaxEvents
  /\ \A t \in timers : t.due > now
  /\ timers' =
       {t \in timers : lastTimeout = None \/ t.id # Get(lastTimeout)}
       \cup {[id |-> nextTimer, due |-> now + DebounceMs, content |-> content,
              evt |-> Len(events) + 1]}
  /\ lastTimeout' = Some(nextTimer)
  /\ nextTimer' = nextTimer + 1
  /\ events' = Append(events, [time |-> now, content |-> content])
  /\ UNCHANGED <<now, updates>>
  /\ UNCHANGED <<blockVars, escapeVars, viewVars, fitVars>>

\* 100 ms pass; a timer runs when it is due
Tick ==
  /\ now + 100 <= MaxTime
  /\ \A t \in timers : t.due > now
  /\ now' = now + 100
  /\ UNCHANGED <<timers, lastTimeout, nextTimer, events, updates>>
  /\ UNCHANGED <<blockVars, escapeVars, viewVars, fitVars>>

\* the timer's callback: await this.update(content); lastTimeout = undefined.
\* With a non-empty content update() meets no read and ends at once; with an
\* empty one it awaits readMarkDown()
TimerFire(t) ==
  /\ t.due <= now
  /\ timers' = timers \ {t}
  /\ updates' = Append(updates, [evt |-> t.evt, time |-> now, content |-> t.content])
  /\ IF t.content # ""
       THEN /\ currentMd' = Some(t.content)
            /\ \E ok \in BOOLEAN, fo \in FrontmatterOptions :
                 RenderMarkmap(Some(t.content), reloads, ok, fo)
            /\ lastTimeout' = None
            /\ UNCHANGED tasks
       ELSE /\ tasks' = Append(tasks, StartUpdate("quick", t.evt, filePath))
            /\ UNCHANGED <<currentMd, rendered, hasFit, lastTimeout>>
            /\ UNCHANGED <<fitCalls, autoFits, renderedGen>>
  /\ UNCHANGED <<leafFile, activeLeaf, vault, filePath, fileName, linkedLeaf,
                 isLeafPinned, lastCheck>>
  /\ UNCHANGED <<now, nextTimer, events>>
  /\ UNCHANGED <<reloads, cbVars>>
  /\ UNCHANGED <<blockVars, escapeVars>>

\* ----------------------------------------------------------- specifications
\* the code-block renderer
InitBlock ==
  /\ BlockInit
  /\ tokens = <<>> /\ parsedTokens = <<>> /\ escPhase = "idle"
  /\ leafFile = [l \in MdLeaves |-> "a.md"] /\ activeLeaf = None
  /\ vault = [q \in Paths |-> None]
  /\ filePath = "a.md" /\ fileName = "a" /\ currentMd = None
  /\ linkedLeaf = None /\ isLeafPinned = FALSE /\ hasFit = FALSE
  /\ rendered = None /\ tasks = <<>>
  /\ lastCheck = Check(FALSE, FALSE, FALSE, FALSE)
  /\ now = 0 /\ timers = {} /\ lastTimeout = None /\ nextTimer = 1
  /\ events = <<>> /\ updates = <<>>
  /\ fitCalls = 0 /\ autoFits = {} /\ reloads = 0 /\ renderedGen = None
  /\ cbHasFit = FALSE /\ cbFitCalls = 0

BlockNext ==
  \/ \E y \in 0..MaxY : MouseDown(y)
  \/ \E y \in 0..MaxY : MouseMove(y)
  \/ MouseUp
  \/ \E g \in GlobalChoices : UpdateGlobalSettings(g)
  \/ \E f \in FileChoices : UpdateFileSettings(f)
  \/ RenderCodeblocks
  \/ Fit

SpecBlock == InitBlock /\ [][BlockNext]_vars

\* the html-escape plugin
InitEscape ==
  /\ EscapeInit
  /\ settings = [global |-> [k \in SettingKeys |-> None],
                 file |-> [k \in SettingKeys |-> None],
                 codeBlock |-> [k \in SettingKeys |-> None]]
  /\ newHeight = None /\ svgHeight = DEFAULT_HEIGHT /\ doc = <<Fence, Fence>>
  /\ streams = <<>> /\ highlightClass = FALSE
  /\ ev = Event("init", 0, FALSE, None)
  /\ drag = [h0 |-> 0, y0 |-> 0, dirty |-> FALSE]
  /\ leafFile = [l \in MdLeaves |-> "a.md"] /\ activeLeaf = None
  /\ vault = [q \in Paths |-> None]
  /\ filePath = "a.md" /\ fileName = "a" /\ currentMd = None
  /\ linkedLeaf = None /\ isLeafPinned = FALSE /\ hasFit = FALSE
  /\ rendered = None /\ tasks = <<>>
  /\ lastCheck = Check(FALSE, FALSE, FALSE, FALSE)
  /\ now = 0 /\ timers = {} /\ lastTimeout = None /\ nextTimer = 1
  /\ events = <<>> /\ updates = <<>>
  /\ fitCalls = 0 /\ autoFits = {} /\ reloads = 0 /\ renderedGen = None
  /\ cbHasFit = FALSE /\ cbFitCalls = 0

EscapeNext == AfterParse

SpecEscape == InitEscape /\ [][EscapeNext]_vars

\* the mind-map view after its constructor and onOpen, whose update() waits for
\* its read
InitView ==
  /\ leafFile = [l \in MdLeaves |-> IF l = "md1" THEN "a.md" ELSE "b.md"]
  /\ activeLeaf = Some("md1")
  /\ vault = [q \in Paths |-> IF q = "a.md" THEN Some("x") ELSE Some("")]
  /\ filePath = "a.md" /\ fileName = Basename("a.md") /\ currentMd = None
  /\ linkedLeaf = None /\ isLeafPinned = FALSE /\ hasFit = FALSE
  /\ rendered = None
  /\ tasks = <<StartUpdate("event", 0, filePath)>>
  /\ lastCheck = Check(FALSE, FALSE, FALSE, FALSE)
  /\ now = 0 /\ timers = {} /\ lastTimeout = None /\ nextTimer = 1
  /\ events = <<>> /\ updates = <<>>
  /\ fitCalls = 0 /\ autoFits = {} /\ reloads = 0 /\ renderedGen = None
  /\ cbHasFit = FALSE /\ cbFitCalls = 0
  /\ tokens = <<>> /\ parsedTokens = <<>> /\ escPhase = "idle"
  /\ settings = [global |-> [k \in SettingKeys |-> None],
                 file |-> [k \in SettingKeys |-> None],
                 codeBlock |-> [k \in SettingKeys |-> None]]
  /\ newHeight = None /\ svgHeight = DEFAULT_HEIGHT /\ doc = <<Fence, Fence>>
  /\ streams = <<>> /\ highlightClass = FALSE
  /\ ev = Event("init", 0, FALSE, None)
  /\ drag = [h0 |-> 0, y0 |-> 0, dirty |-> FALSE]

\* the view under workspace events
ViewNext ==
  \/ CheckAndUpdate
  \/ \E i \in 1..Len(tasks) : CheckReadReturn(i)
  \/ \E i \in 1..Len(tasks) : UpdateReadReturn(i)
  \/ PinCurrentLeaf
  \/ UnPin
  \/ \E g \in {None, Some("g")} : UpdateLinkedLeaf(g)
  \/ \E l \in {None} \cup {Some(x) : x \in Leaves} : SetActiveLeaf(l)
  \/ \E l \in MdLeaves, q \in Paths : OpenFile(l, q)
  \/ \E q \in Paths, c \in {None} \cup {Some(x) : x \in FileTexts} : WriteFile(q, c)

SpecView == InitView /\ [][ViewNext]_vars

\* the view under quick-preview events
QuickNext ==
  \/ \E c \in PreviewTexts : QuickPreview(c)
  \/ Tick
  \/ \E t \in timers : TimerFire(t)
  \/ \E i \in 1..Len(tasks) : UpdateReadReturn(i)

SpecQuick == InitView /\ [][QuickNext]_vars

\* the view under workspace events, quick-preview events and reloads
FitNext ==
  \/ CheckAndUpdate
  \/ \E i \in 1..Len(tasks) : CheckReadReturn(i)
  \/ \E i \in 1..Len(tasks) : UpdateReadReturn(i)
  \/ \E l \in {None} \cup {Some(x) : x \in Leaves} : SetActiveLeaf(l)
  \/ \E q \in Paths, c \in {None} \cup {Some(x) : x \in FileTexts} : WriteFile(q, c)
  \/ ReloadMarkmapSVG

SpecFit == InitView /\ [][FitNext]_vars

\* ------------------------------------------------- claims on the code block
Height == HeightGet(newHeight, settings.codeBlock)

\* the front-matter's height, or the default where it stores none
StoredOrDefault(d) ==
  IF FrontMatterHeight(d) = None THEN DEFAULT_HEIGHT ELSE Get(FrontMatterHeight(d))

\* C2: when a drag ends (mouseup) with a displayed height different from the
\* height stored in the front-matter, saveHeight rewrites the front-matter so
\* that markmap.height is the displayed height, in one write.
C2_ResizePersisted ==
  [][(ev'.type = "mouseup" /\ streams # <<>> /\ svgHeight # StoredOrDefault(doc))
       => (ev'.wrote /\ FrontMatterHeight(doc') = Some(svgHeight))]_vars

\* C3: for every key other than height, merged is the code block's value if
\* present, else the file's if present, else the global one; merged.height is
\* the manager's height; updateGlobalSettings and updateFileSettings replace
\* their own layer only and re-render.
C3_Expected(k) ==
  IF settings.codeBlock[k] # None THEN settings.codeBlock[k]
  ELSE IF settings.file[k] # None THEN settings.file[k]
  ELSE settings.global[k]

C3_Inv ==
  /\ \A k \in SettingKeys \ {"height"} :
       Merged(settings, newHeight)[k] = C3_Expected(k)
  /\ Merged(settings, newHeight)["height"] = Some(Height)
  /\ highlightClass = Truthy(C3_Expected("highlight"))

C3_Act ==
  /\ ev'.type = "updateGlobalSettings" =>
       settings'.file = settings.file /\ settings'.codeBlock = settings.codeBlock
  /\ ev'.type = "updateFileSettings" =>
       settings'.global = settings.global /\ settings'.codeBlock = settings.codeBlock

\* C3: merged resolves every key code block > file > global, merged.height is
\* the manager's height, and the two update methods replace their own layer only.
C3_MergePrecedence == []C3_Inv /\ [][C3_Act]_vars

C3_Witness ==
  /\ ev.type = "updateFileSettings"
  /\ settings.codeBlock["highlight"] = None
  /\ settings.file["highlight"] # None
  /\ settings.file["highlight"] # settings.global["highlight"]
  /\ settings.global["height"] # None
  /\ settings.file["height"] # None
  /\ newHeight # None

\* C6: during a drag, after every mousemove the height is the height at the
\* mousedown plus (clientY of the mousemove - clientY of the mousedown), and
\* the svg shows it.
C6_DragFollowsPointer ==
  (ev.type = "mousemove" /\ streams # <<>>) =>
     /\ Height = drag.h0 + (ev.y - drag.y0)
     /\ svgHeight = drag.h0 + (ev.y - drag.y0)

\* C7: a mouseup with no pending height change (no offset applied since
\* construction or the last save, or the drag brought the height back to the
\* one the front-matter stores) reads and writes nothing.
C7_NoPendingNoWrite ==
  [][(ev'.type = "mouseup"
        /\ (~drag.dirty \/ FrontMatterHeight(doc) = Some(Height)))
       => (~ev'.wrote /\ doc' = doc)]_vars

\* C8: saveHeight changes only markmap.height: the lines up to
\* sectionInfo.lineStart and from sectionInfo.lineEnd on are untouched, the
\* body, every other top-level key and every other key of markmap are kept, and
\* a block without a markmap object gets one holding only height.
Others(seq, k) == SelectSeq(seq, LAMBDA e : e.k # k)
MarkmapOf(data) ==
  IF HasKey(data, "markmap") THEN data[KeyIndex(data, "markmap")].sub ELSE <<>>

C8_Frame(d, d2, h) ==
  LET info == GetSectionInfo(d)
      info2 == GetSectionInfo(d2)
      md == GrayMatter(BlockText(d))
      md2 == GrayMatter(BlockText(d2))
  IN /\ SubSeq(d2, 1, info.lineStart + 1) = SubSeq(d, 1, info.lineStart + 1)
     /\ SubSeq(d2, info2.lineEnd + 1, Len(d2)) = SubSeq(d, info.lineEnd + 1, Len(d))
     /\ Len(d) - info.lineEnd = Len(d2) - info2.lineEnd
     /\ md2.content = md.content
     /\ Others(md2.data, "markmap") = Others(md.data, "markmap")
     /\ Others(MarkmapOf(md2.data), "height") = Others(MarkmapOf(md.data), "height")
     /\ FrontMatterHeight(d2) = Some(h)
     /\ ~HasKey(md.data, "markmap") =>
          MarkmapOf(md2.data) = <<[k |-> "height", v |-> h]>>

C9_HeightResolution ==
  LET stored == settings.codeBlock["height"]
      expected == IF newHeight # None THEN Get(newHeight)
                  ELSE IF stored # None THEN Get(stored) ELSE 150
  IN /\ Height = expected
     /\ ev.type = "init" => svgHeight = expected
     /\ ev.assigned # None =>
          newHeight = (IF ev.assigned = stored THEN None ELSE ev.assigned)

C9_Witness ==
  /\ ev.type = "mousemove" /\ ev.assigned # None
  /\ settings.codeBlock["height"] = Some(0)
  /\ newHeight = None
  /\ drag.dirty

\* C10: after saveHeight has written H, height and merged.height are H, and
\* so is the svg's height.
C10_SavedHeightIsCurrent ==
  (ev.type = "mouseup" /\ ev.wrote) =>
     /\ FrontMatterHeight(doc) = Some(Height)
     /\ Merged(settings, newHeight)["height"] = FrontMatterHeight(doc)
     /\ FrontMatterHeight(doc) = Some(svgHeight)

\* ------------------------------------------------ claims on html-escape
RECURSIVE NoAngleBrackets(_)
NoAngleBrackets(token) ==
  /\ token.type = "htmltag" =>
       \A i \in 1..Len(token.content) : token.content[i] \notin {"<", ">"}
  /\ \A i \in 1..Len(token.children) : NoAngleBrackets(token.children[i])

RECURSIVE OthersUnchanged(_, _)
OthersUnchanged(before, after) ==
  /\ after.type = before.type
  /\ before.type # "htmltag" => after.content = before.content
  /\ Len(after.children) = Len(before.children)
  /\ \A i \in 1..Len(before.children) :
       OthersUnchanged(before.children[i], after.children[i])

\* C4: after the wrapped parse returns, no htmltag token, at any depth of
\* children, has a '<' or a '>' in its content, and the tokens of any other
\* type have their content unchanged.
C4_AllAngleBracketsEscaped ==
  escPhase = "escaped" =>
    \A i \in 1..Len(tokens) :
      NoAngleBrackets(tokens[i]) /\ OthersUnchanged(parsedTokens[i], tokens[i])

\* ------------------------------------------------- claims on the mind-map view
\* event i was followed by another one less than 300 ms later
Superseded(i) ==
  i < Len(events) /\ events[i + 1].time - events[i].time < DebounceMs

\* event i ends its burst, and the 300 ms after it have passed
BurstEnded(i) ==
  /\ ~Superseded(i)
  /\ i < Len(events) \/ now > events[i].time + DebounceMs

UpdatesOf(i) == {u \in 1..Len(updates) : updates[u].evt = i}

\* C1: of a burst of quick-preview events less than 300 ms apart, only the
\* last one gets an update: one call of update, 300 ms after that event and
\* with its content; no superseded event gets one.
C1_Debounced ==
  /\ \A u \in 1..Len(updates) : ~Superseded(updates[u].evt)
  /\ \A i \in 1..Len(events) :
       BurstEnded(i) =>
         /\ Cardinality(UpdatesOf(i)) = 1
         /\ \A u \in UpdatesOf(i) :
              /\ updates[u].time = events[i].time + DebounceMs
              /\ updates[u].content = events[i].content

\* C5: a checkAndUpdate calls update exactly when the active leaf is a
\* markdown view and the target leaf's file path differs from filePath or the
\* file's content differs from currentMd; with another active leaf it leaves
\* filePath, fileName and currentMd alone and renders nothing.
C5_UpdateIffChanged ==
  /\ lastCheck.updated <=> (lastCheck.activeMd /\ lastCheck.differs)
  /\ ~lastCheck.activeMd => ~lastCheck.touched

\* C11: while the view is pinned, filePath and fileName stay those of the
\* moment of pinning, whatever the workspace events; once unpinned, a
\* checkAndUpdate with a markdown leaf active shows that leaf's file.
C11_PinnedFileStays ==
  [][/\ (isLeafPinned /\ isLeafPinned')
          => (filePath' = filePath /\ fileName' = fileName)
     /\ (/\ ~isLeafPinned
         /\ CheckAndUpdate
         /\ activeLeaf # None
         /\ ViewType(Get(activeLeaf)) = MD_VIEW_TYPE)
          => /\ filePath' = leafFile[Get(activeLeaf)]
             /\ fileName' = Basename(leafFile[Get(activeLeaf)])]_vars

\* ------------------------------------------------------- claims on the fit
\* C12: markmapSVG.fit() has been called once if a renderMarkmap got past its
\* setData and not at all otherwise, so it is called on the first such render
\* and never again, reloads of the Markmap instance included; hasFit tells
\* whether it was called; every setData was given autoFit false.
C12_FitExactlyOnce ==
  /\ fitCalls = (IF rendered # None THEN 1 ELSE 0)
  /\ hasFit <=> (fitCalls = 1)
  /\ autoFits \subseteq {Some(FALSE)}

\* a render completed on an instance created by a reload, after the fit
C12_Witness ==
  /\ fitCalls = 1
  /\ reloads = MaxReloads
  /\ renderedGen = Some(reloads)
  /\ autoFits # {}

\* C13: over any sequence of calls of a code-block renderer's fit, markmap.fit()
\* is called at most once.
C13_BlockFitAtMostOnce == cbFitCalls <= 1
====
